---- MODULE Spec2Model ----
(***************************************************************************)
(* A model of aurelia-api: the endpoint registry (class Config) and the    *)
(* request path of a Rest client (class DefaultRest).                      *)
(*                                                                         *)
(* JavaScript values are tagged records, so that values of different JS    *)
(* types can be compared: Undefined, Null, Str(<<chars>>), Num(n),         *)
(* Fn(name), plain objects Obj(<<[k, v], ...>>) with their properties in   *)
(* insertion order, and class instances (Rest, HttpClient, Headers).       *)
(* Property names (endpoint names, header names) are TLA+ strings.         *)
(***************************************************************************)
EXTENDS Integers, Sequences, FiniteSets, TLC

VARIABLES config, last, rest, call, issued, fetched, heap, inflight, resolver

vars == <<config, last, rest, call, issued, fetched, heap, inflight, resolver>>

(***************************************************************************)
(* Bounds of the model.                                                    *)
(***************************************************************************)
\* how many clients one run of the registry may create (new HttpClient())
MaxClients == 2
\* how many entries the endpoints array of a bulk configuration may hold
MaxEntries == 2
\* how many CRUD calls are issued on the client under test
MaxCalls == 1
\* how many CRUD calls are in flight together on one client
MaxInFlight == 2

(***************************************************************************)
(* JavaScript values.                                                      *)
(***************************************************************************)
Undefined == [t |-> "undefined"]

Null == [t |-> "null"]

Str(chars) == [t |-> "string", s |-> chars]

Num(n) == [t |-> "number", n |-> n]

Bool(b) == [t |-> "boolean", b |-> b]

Fn(name) == [t |-> "function", f |-> name]

Obj(props) == [t |-> "object", props |-> props]

\* ToBoolean: what `!x`, `x || y` and `if (x)` test
Truthy(v) ==
  CASE v.t = "undefined" -> FALSE
    [] v.t = "null" -> FALSE
    [] v.t = "string" -> v.s # <<>>
    [] v.t = "number" -> v.n # 0
    [] v.t = "boolean" -> v.b
    [] OTHER -> TRUE

\* a || b
Or(a, b) == IF Truthy(a) THEN a ELSE b

(***************************************************************************)
(* Strings are sequences of characters.                                    *)
(***************************************************************************)
\* the printable ASCII characters in code order, from code 32 (space) on
\* (code 96, the grave accent, is spelled out: it is no character of a string here)
Ascii ==
  <<" ", "!", "\"", "#", "$", "%", "&", "'", "(", ")", "*", "+", ",", "-", ".", "/",
    "0", "1", "2", "3", "4", "5", "6", "7", "8", "9", ":", ";", "<", "=", ">", "?",
    "@", "A", "B", "C", "D", "E", "F", "G", "H", "I", "J", "K", "L", "M", "N", "O",
    "P", "Q", "R", "S", "T", "U", "V", "W", "X", "Y", "Z", "[", "\\", "]", "^", "_",
    "grave", "a", "b", "c", "d", "e", "f", "g", "h", "i", "j", "k", "l", "m", "n", "o",
    "p", "q", "r", "s", "t", "u", "v", "w", "x", "y", "z", "{", "|", "}", "~">>

\* c.charCodeAt(0)
Code(c) == 31 + CHOOSE i \in 1..Len(Ascii) : Ascii[i] = c

\* String.fromCharCode(n)
FromCode(n) == Ascii[n - 31]

RECURSIVE Concat(_)
\* the concatenation of a sequence of strings
Concat(parts) == IF parts = <<>> THEN <<>> ELSE Head(parts) \o Concat(Tail(parts))

RECURSIVE Digits(_)
\* the decimal digits of a natural number
Digits(n) ==
  IF n < 10 THEN <<FromCode(48 + n)>>
  ELSE Digits(n \div 10) \o <<FromCode(48 + (n % 10))>>

\* String(v) and `${v}` for the values the model passes
String(v) ==
  CASE v.t = "string" -> v.s
    [] v.t = "number" -> Digits(v.n)
    [] v.t = "boolean" -> IF v.b THEN <<"t","r","u","e">> ELSE <<"f","a","l","s","e">>
    [] v.t = "null" -> <<"n","u","l","l">>
    [] v.t = "undefined" -> <<"u","n","d","e","f","i","n","e","d">>
    [] OTHER -> <<"[","o","b","j","e","c","t"," ","O","b","j","e","c","t","]">>

\* s.toLowerCase()
toLowerCase(s) ==
  [i \in 1..Len(s) |->
     IF Code(s[i]) >= 65 /\ Code(s[i]) <= 90 THEN FromCode(Code(s[i]) + 32) ELSE s[i]]

\* whether string a sorts before string b (UTF-16 code unit order)
RECURSIVE Before(_, _)
Before(a, b) ==
  IF b = <<>> THEN FALSE
  ELSE IF a = <<>> THEN TRUE
  ELSE IF Head(a) = Head(b) THEN Before(Tail(a), Tail(b))
  ELSE Code(Head(a)) < Code(Head(b))

\* s.indexOf(sub) === 0
StartsWith(s, sub) == Len(s) >= Len(sub) /\ SubSeq(s, 1, Len(sub)) = sub

RECURSIVE Split(_, _)
\* s.split(c) for a one-character separator
Split(s, c) ==
  IF \A i \in 1..Len(s) : s[i] # c THEN <<s>>
  ELSE LET i == CHOOSE j \in 1..Len(s) : s[j] = c /\ \A k \in 1..(j - 1) : s[k] # c
       IN <<SubSeq(s, 1, i - 1)>> \o Split(SubSeq(s, i + 1, Len(s)), c)

RECURSIVE Join(_, _)
\* parts.join(sep)
Join(parts, sep) ==
  IF parts = <<>> THEN <<>>
  ELSE IF Len(parts) = 1 THEN parts[1]
  ELSE parts[1] \o sep \o Join(Tail(parts), sep)

RECURSIVE ReplaceFirst(_, _, _)
\* s.replace(pattern, by) for a string pattern: the first occurrence only
ReplaceFirst(s, pattern, by) ==
  IF Len(s) < Len(pattern) THEN s
  ELSE IF StartsWith(s, pattern) THEN by \o SubSeq(s, Len(pattern) + 1, Len(s))
  ELSE <<Head(s)>> \o ReplaceFirst(Tail(s), pattern, by)

(***************************************************************************)
(* Plain objects: properties in insertion order, keys are strings.         *)
(***************************************************************************)
HeadersKey == <<"h","e","a","d","e","r","s">>

MethodKey == <<"m","e","t","h","o","d">>

BodyKey == <<"b","o","d","y">>

\* 'Content-Type'
ContentTypeKey == <<"C","o","n","t","e","n","t","-","T","y","p","e">>

\* 'content-type'
ContentTypeLowerKey == <<"c","o","n","t","e","n","t","-","t","y","p","e">>

AcceptKey == <<"A","c","c","e","p","t">>

\* typeof v === 'object' (null included, as in JavaScript)
IsObject(v) == v.t \in {"object", "null", "Headers", "Rest", "HttpClient", "Response"}

\* extend's isPlainObject: an object literal, not a class instance
isPlainObject(v) == v.t = "object"

\* whether k is an own property of the plain object o
HasOwn(o, k) == o.t = "object" /\ \E i \in 1..Len(o.props) : o.props[i].k = k

\* o[k]: an own property of a plain object; undefined on anything else the
\* model reads a property of (a Headers instance keeps its entries elsewhere)
Member(o, k) ==
  IF HasOwn(o, k)
    THEN o.props[CHOOSE i \in 1..Len(o.props) : o.props[i].k = k].v
    ELSE Undefined

\* o[k] = v on a plain object: in place if k is there, else appended
Put(o, k, v) ==
  IF HasOwn(o, k)
    THEN Obj([i \in 1..Len(o.props) |->
                IF o.props[i].k = k THEN [k |-> k, v |-> v] ELSE o.props[i]])
    ELSE Obj(Append(o.props, [k |-> k, v |-> v]))

RECURSIVE extendProps(_, _)
\* extend's loop `for (name in options)` in deep mode, over the properties left
extendProps(target, props) ==
  IF props = <<>> THEN target
  ELSE LET name == Head(props).k
           copy == Head(props).v
           src == Member(target, name)
           clone == IF Truthy(src) /\ isPlainObject(src) THEN src ELSE Obj(<<>>)
           merged ==
             IF Truthy(copy) /\ isPlainObject(copy)
               THEN Put(target, name, extendProps(clone, copy.props))
             ELSE IF copy # Undefined
               THEN Put(target, name, copy)
             ELSE target
       IN extendProps(merged, Tail(props))

RECURSIVE extend(_, _)
\* extend(true, target, ...sources): null and undefined sources are skipped
extend(target, sources) ==
  IF sources = <<>> THEN target
  ELSE IF Head(sources) \in {Null, Undefined} THEN extend(target, Tail(sources))
  ELSE extend(extendProps(target, Head(sources).props), Tail(sources))

(***************************************************************************)
(* JSON.stringify, and aurelia-path's buildQueryString and join.           *)
(***************************************************************************)
RECURSIVE Quote(_)
\* the characters of a JSON string literal, without the enclosing quotes
Quote(s) ==
  IF s = <<>> THEN <<>>
  ELSE (IF Head(s) \in {"\"", "\\"} THEN <<"\\", Head(s)>> ELSE <<Head(s)>>)
       \o Quote(Tail(s))

RECURSIVE JSONstringify(_)
\* JSON.stringify(v): properties in insertion order, undefined ones left out
JSONstringify(v) ==
  CASE v.t = "string" -> <<"\"">> \o Quote(v.s) \o <<"\"">>
    [] v.t = "object" ->
         LET kept == SelectSeq(v.props, LAMBDA p : p.v.t \notin {"undefined", "function"})
             members == [i \in 1..Len(kept) |->
                           <<"\"">> \o Quote(kept[i].k) \o <<"\"", ":">>
                           \o JSONstringify(kept[i].v)]
         IN <<"{">> \o Join(members, <<",">>) \o <<"}">>
    [] v.t \in {"Headers", "Rest", "HttpClient", "Response"} -> <<"{", "}">>
    [] OTHER -> String(v)

\* the characters encodeURIComponent leaves as they are
Unreserved ==
  {Ascii[i] : i \in (17..26) \cup (34..59) \cup (66..91)}
    \cup {"-", "_", ".", "!", "~", "*", "'", "(", ")"}

HexDigits == <<"0","1","2","3","4","5","6","7","8","9","A","B","C","D","E","F">>

RECURSIVE encodeURIComponent(_)
encodeURIComponent(s) ==
  IF s = <<>> THEN <<>>
  ELSE (IF Head(s) \in Unreserved THEN <<Head(s)>>
        ELSE <<"%", HexDigits[(Code(Head(s)) \div 16) + 1],
               HexDigits[(Code(Head(s)) % 16) + 1]>>)
       \o encodeURIComponent(Tail(s))

\* aurelia-path: encode = encodeURIComponent
encode(s) == encodeURIComponent(s)

\* aurelia-path: encodeKey = k => encode(k).replace('%24', '$')
encodeKey(k) == ReplaceFirst(encode(k), <<"%","2","4">>, <<"$">>)

RECURSIVE buildParam(_, _)
\* aurelia-path buildParam(key, value): the 'key=value' pairs of one parameter
buildParam(key, value) ==
  IF value \in {Null, Undefined} THEN <<>>
  ELSE IF value.t = "object"
    THEN Concat([i \in 1..Len(value.props) |->
                   buildParam(key \o <<"[">> \o value.props[i].k \o <<"]">>,
                              value.props[i].v)])
  ELSE <<encodeKey(key) \o <<"=">> \o encode(String(value))>>

\* a sort that leaves the keys in the order given
SortAsGiven(keys) == keys

RECURSIVE Sort(_)
\* keys.sort(): insertion of the head into the sorted tail
Sort(keys) ==
  IF keys = <<>> THEN <<>>
  ELSE LET rest0 == Sort(Tail(keys))
           lower == SelectSeq(rest0, LAMBDA k : Before(k, Head(keys)))
           upper == SelectSeq(rest0, LAMBDA k : ~Before(k, Head(keys)))
       IN lower \o <<Head(keys)>> \o upper

\* aurelia-path buildQueryString(params): the keys sorted, the pairs joined by '&'
buildQueryString(params) ==
  LET keys == Sort([i \in 1..Len(params.props) |-> params.props[i].k])
      pairs == Concat([i \in 1..Len(keys) |-> buildParam(keys[i], Member(params, keys[i]))])
  IN Join(pairs, <<"&">>)

\* the scheme of path1 in join: the match of /^([^/]*?:)\// , or ''
Scheme(path1) ==
  LET ends == {i \in 1..(Len(path1) - 1) :
                 /\ path1[i] = ":"
                 /\ path1[i + 1] = "/"
                 /\ \A k \in 1..i : path1[k] # "/"}
  IN IF ends = {} THEN <<>>
     ELSE SubSeq(path1, 1, CHOOSE i \in ends : \A j \in ends : i <= j)

RECURSIVE joinSegments(_, _)
\* join's loops over the split paths: '..' pops, '.' and '' are skipped
joinSegments(url3, segments) ==
  IF segments = <<>> THEN url3
  ELSE IF Head(segments) = <<".", ".">>
    THEN joinSegments(IF url3 = <<>> THEN url3 ELSE SubSeq(url3, 1, Len(url3) - 1),
                      Tail(segments))
  ELSE IF Head(segments) = <<".">> \/ Head(segments) = <<>>
    THEN joinSegments(url3, Tail(segments))
  ELSE joinSegments(Append(url3, Head(segments)), Tail(segments))

\* aurelia-path join(path1, path2)
join(path1, path2) ==
  IF path1 = <<>> THEN path2
  ELSE IF path2 = <<>> THEN path1
  ELSE LET scheme == Scheme(path1)
           p1 == SubSeq(path1, Len(scheme) + 1, Len(path1))
           urlPrefix ==
             IF StartsWith(p1, <<"/","/","/">>) /\ scheme = <<"f","i","l","e",":">>
               THEN <<"/","/","/">>
             ELSE IF StartsWith(p1, <<"/","/">>) THEN <<"/","/">>
             ELSE IF StartsWith(p1, <<"/">>) THEN <<"/">>
             ELSE <<>>
           trailingSlash == IF path2[Len(path2)] = "/" THEN <<"/">> ELSE <<>>
           url3 == joinSegments(joinSegments(<<>>, Split(p1, "/")), Split(path2, "/"))
       IN scheme \o urlPrefix \o Join(url3, <<"/">>) \o trailingSlash

(***************************************************************************)
(* The registry: class Config.                                             *)
(***************************************************************************)
\* Endpoint names the model registers and looks up. "" is the falsy name;
\* "constructor" is a name that every plain object inherits.
Names == {"", "a", "b", "constructor"}

\* The properties a plain object ({}) inherits from Object.prototype.
ObjectPrototype == [constructor |-> Fn("Object")]

\* Base urls, as the url argument of registerEndpoint and as default base url
UrlA == Str(<<"/", "a">>)

UrlB == Str(<<"/", "b">>)

\* new HttpClient(): not configured, base url ''
HttpClient == [t |-> "HttpClient", baseUrl |-> Str(<<>>), configuredBy |-> Undefined]

\* configure => { configure.withBaseUrl(url) }
withBaseUrl(client, url) == [client EXCEPT !.baseUrl = url]

\* newClient.configure(configureMethod) with the caller's function
configureClient(client, f) == [client EXCEPT !.configuredBy = f]

\* 'application/json'
AppJson == Str(<<"a","p","p","l","i","c","a","t","i","o","n","/","j","s","o","n">>)

\* new Headers({...}): a class instance, not a plain object; its entries are
\* not own properties of the instance
Headers(entries) == [t |-> "Headers", entries |-> entries]

\* DefaultRest.defaults as the class initialises it
BuiltinDefaults ==
  Obj(<<[k |-> HeadersKey,
         v |-> Headers(<<[k |-> AcceptKey, v |-> AppJson],
                         [k |-> ContentTypeKey, v |-> AppJson]>>)]>>)

\* new DefaultRest(httpClient, endpoint); id is the identity of the new object
DefaultRest(id, httpClient, endpoint) ==
  [t |-> "Rest", class |-> "DefaultRest", id |-> id, client |-> httpClient,
   endpoint |-> endpoint, defaults |-> BuiltinDefaults]

\* new Rest(client, endpoint): the base class, whose defaults are not
\* initialised and whose request is not implemented
Rest(id, client, endpoint) ==
  [t |-> "Rest", class |-> "Rest", id |-> id, client |-> client,
   endpoint |-> endpoint, defaults |-> Undefined]

\* obj[name] on a plain object: an own property, else an inherited one
GetProperty(obj, name) ==
  IF name \in DOMAIN obj THEN obj[name]
  ELSE IF name \in DOMAIN ObjectPrototype THEN ObjectPrototype[name]
  ELSE Undefined

\* obj[name] = value
SetProperty(obj, name, value) ==
  [n \in (DOMAIN obj) \cup {name} |-> IF n = name THEN value ELSE obj[n]]

\* new Config(): no endpoints, no default endpoint, no default base url.
\* allocated counts the clients created so far (the identity of the next one).
NewConfig ==
  [endpoints |-> [n \in {} |-> Undefined],
   defaultEndpoint |-> Undefined,
   defaultBaseUrl |-> Undefined,
   allocated |-> 0]

\* a transport configuration in which the default base url, when set, is
\* taken before a base url string
registerEndpointClientDefaultFirst(c, configureMethod) ==
  IF configureMethod.t = "function"
    THEN configureClient(HttpClient, configureMethod)
  ELSE IF Truthy(c.defaultBaseUrl)
    THEN withBaseUrl(HttpClient, c.defaultBaseUrl)
  ELSE IF configureMethod.t # "string"
    THEN HttpClient
  ELSE withBaseUrl(HttpClient, configureMethod)

\* the transport of a newly registered endpoint, by configureMethod
registerEndpointClient(c, configureMethod) ==
  IF configureMethod.t = "function"
    THEN configureClient(HttpClient, configureMethod)
  ELSE IF configureMethod.t # "string" /\ ~Truthy(c.defaultBaseUrl)
    THEN HttpClient
  ELSE IF Truthy(c.defaultBaseUrl) /\ configureMethod.t # "string"
          /\ configureMethod.t # "function"
    THEN withBaseUrl(HttpClient, c.defaultBaseUrl)
  ELSE withBaseUrl(HttpClient, configureMethod)

\* a registerEndpoint that keeps the client a name already has
registerEndpointKeepingFirst(c, name, configureMethod, defaults) ==
  LET id == c.allocated + 1
      created == DefaultRest(id, registerEndpointClient(c, configureMethod), name)
      client == IF defaults # Undefined
                  THEN [created EXCEPT !.defaults = defaults]
                  ELSE created
  IN [c EXCEPT !.endpoints = IF name \in DOMAIN c.endpoints THEN c.endpoints
                             ELSE SetProperty(c.endpoints, name, client),
               !.allocated = id]

\* a registerEndpoint that leaves the new client its built-in defaults
registerEndpointBuiltinDefaults(c, name, configureMethod, defaults) ==
  LET id == c.allocated + 1
      created == DefaultRest(id, registerEndpointClient(c, configureMethod), name)
  IN [c EXCEPT !.endpoints = SetProperty(c.endpoints, name, created),
               !.allocated = id]

\* a registerEndpoint that makes the first client registered the default
registerEndpointDefaulting(c, name, configureMethod, defaults) ==
  LET id == c.allocated + 1
      created == DefaultRest(id, registerEndpointClient(c, configureMethod), name)
      client == IF defaults # Undefined
                  THEN [created EXCEPT !.defaults = defaults]
                  ELSE created
  IN [c EXCEPT !.endpoints = SetProperty(c.endpoints, name, client),
               !.defaultEndpoint = IF Truthy(c.defaultEndpoint)
                                     THEN c.defaultEndpoint ELSE client,
               !.allocated = id]

\* Config.registerEndpoint(name, configureMethod, defaults)
registerEndpoint(c, name, configureMethod, defaults) ==
  LET id == c.allocated + 1
      created == DefaultRest(id, registerEndpointClient(c, configureMethod), name)
      client == IF defaults # Undefined
                  THEN [created EXCEPT !.defaults = defaults]
                  ELSE created
  IN [c EXCEPT !.endpoints = SetProperty(c.endpoints, name, client),
               !.allocated = id]

\* a getEndpoint that looks every name up, the empty one too, and falls back
\* to the default endpoint
getEndpointLookingUpFirst(c, name) ==
  Or(Or(GetProperty(c.endpoints, name), c.defaultEndpoint), Null)

\* Config.getEndpoint(name); "" stands for a name that is not set
getEndpoint(c, name) ==
  IF name = "" THEN Or(c.defaultEndpoint, Null)
  ELSE Or(GetProperty(c.endpoints, name), Null)

\* Config.endpointExists(name)
endpointExists(c, name) == Truthy(GetProperty(c.endpoints, name))

\* Config.setDefaultEndpoint(name)
setDefaultEndpoint(c, name) == [c EXCEPT !.defaultEndpoint = getEndpoint(c, name)]

\* Config.setDefaultBaseUrl(baseUrl)
setDefaultBaseUrl(c, baseUrl) == [c EXCEPT !.defaultBaseUrl = baseUrl]

\* the body of configure's forEach for one entry
configureEntry(c, entry) ==
  LET registered == registerEndpoint(c, entry.name, entry.endpoint, entry.config)
  IN IF entry.default THEN setDefaultEndpoint(registered, entry.name)
     ELSE registered

RECURSIVE configureEntries(_, _)
\* config.endpoints.forEach(...), in array order
configureEntries(c, entries) ==
  IF entries = <<>> THEN c
  ELSE configureEntries(configureEntry(c, Head(entries)), Tail(entries))

\* a configure that registers the entries before it sets the default base url
configureBaseUrlLast(c, cfg) ==
  LET looped == configureEntries(c, cfg.endpoints)
      based == IF Truthy(cfg.defaultBaseUrl)
                 THEN [looped EXCEPT !.defaultBaseUrl = cfg.defaultBaseUrl]
                 ELSE looped
  IN IF cfg.defaultEndpoint # ""
       THEN setDefaultEndpoint(based, cfg.defaultEndpoint)
       ELSE based

\* Config.configure(config)
configure(c, cfg) ==
  LET based == IF Truthy(cfg.defaultBaseUrl)
                 THEN [c EXCEPT !.defaultBaseUrl = cfg.defaultBaseUrl]
                 ELSE c
      looped == configureEntries(based, cfg.endpoints)
  IN IF cfg.defaultEndpoint # ""
       THEN setDefaultEndpoint(looped, cfg.defaultEndpoint)
       ELSE looped

(***************************************************************************)
(* The resolver: class Endpoint.                                           *)
(***************************************************************************)
\* Endpoint.of(key): new Endpoint(key), which keeps the key
Endpoint_of(key) == [t |-> "Endpoint", key |-> key]

\* a get that keeps what it resolved first and returns it from then on
Endpoint_getCaching(this, c) ==
  IF "cached" \in DOMAIN this
    THEN [result |-> this.cached, self |-> this]
    ELSE [result |-> getEndpoint(c, this.key),
          self |-> [t |-> "Endpoint", key |-> this.key,
                    cached |-> getEndpoint(c, this.key)]]

\* Endpoint.get(container): container.get(Config) is the registry c; the
\* result, and the resolver after the call (get assigns nothing)
Endpoint_get(this, c) ==
  [result |-> getEndpoint(c, this.key), self |-> this]

(***************************************************************************)
(* The Rest client: path building, request, and the CRUD methods.          *)
(***************************************************************************)
\* a getRequestPath that ends a scalar criteria with '/' unconditionally
getRequestPathAlwaysSlash(resource, idOrCriteria, criteria) ==
  LET hasSlash == resource.s # <<>> /\ resource.s[Len(resource.s)] = "/"
      isId == idOrCriteria.t \in {"string", "number"}
      withId == IF isId
                  THEN join(resource.s, String(idOrCriteria))
                       \o (IF hasSlash THEN <<"/">> ELSE <<>>)
                  ELSE resource.s
      filter == IF isId THEN criteria ELSE idOrCriteria
  IN IF IsObject(filter) /\ filter # Null
       THEN withId \o <<"?">> \o buildQueryString(filter)
     ELSE IF Truthy(filter)
       THEN withId \o (IF hasSlash THEN <<>> ELSE <<"/">>) \o String(filter) \o <<"/">>
     ELSE withId

\* a getRequestPath that takes only a truthy scalar for an id
getRequestPathTruthyId(resource, idOrCriteria, criteria) ==
  LET hasSlash == resource.s # <<>> /\ resource.s[Len(resource.s)] = "/"
      isId == idOrCriteria.t \in {"string", "number"} /\ Truthy(idOrCriteria)
      withId == IF isId
                  THEN join(resource.s, String(idOrCriteria))
                       \o (IF hasSlash THEN <<"/">> ELSE <<>>)
                  ELSE resource.s
      filter == IF isId THEN criteria ELSE idOrCriteria
  IN IF IsObject(filter) /\ filter # Null
       THEN withId \o <<"?">> \o buildQueryString(filter)
     ELSE IF Truthy(filter)
       THEN withId \o (IF hasSlash THEN <<>> ELSE <<"/">>) \o String(filter)
            \o (IF hasSlash THEN <<"/">> ELSE <<>>)
     ELSE withId

\* a getRequestPath that falls back to criteria when idOrCriteria is absent
getRequestPathFallingBack(resource, idOrCriteria, criteria) ==
  LET hasSlash == resource.s # <<>> /\ resource.s[Len(resource.s)] = "/"
      isId == idOrCriteria.t \in {"string", "number"}
      withId == IF isId
                  THEN join(resource.s, String(idOrCriteria))
                       \o (IF hasSlash THEN <<"/">> ELSE <<>>)
                  ELSE resource.s
      filter == IF isId \/ idOrCriteria \in {Undefined, Null}
                  THEN criteria ELSE idOrCriteria
  IN IF IsObject(filter) /\ filter # Null
       THEN withId \o <<"?">> \o buildQueryString(filter)
     ELSE IF Truthy(filter)
       THEN withId \o (IF hasSlash THEN <<>> ELSE <<"/">>) \o String(filter)
            \o (IF hasSlash THEN <<"/">> ELSE <<>>)
     ELSE withId

\* a getRequestPath that takes null for a mapping (typeof null === 'object')
getRequestPathNullAsMapping(resource, idOrCriteria, criteria) ==
  LET hasSlash == resource.s # <<>> /\ resource.s[Len(resource.s)] = "/"
      isId == idOrCriteria.t \in {"string", "number"}
      withId == IF isId
                  THEN join(resource.s, String(idOrCriteria))
                       \o (IF hasSlash THEN <<"/">> ELSE <<>>)
                  ELSE resource.s
      filter == IF isId THEN criteria ELSE idOrCriteria
  IN IF filter = Null
       THEN withId \o <<"?">>
     ELSE IF IsObject(filter)
       THEN withId \o <<"?">> \o buildQueryString(filter)
     ELSE IF Truthy(filter)
       THEN withId \o (IF hasSlash THEN <<>> ELSE <<"/">>) \o String(filter)
            \o (IF hasSlash THEN <<"/">> ELSE <<>>)
     ELSE withId

\* getRequestPath(resource, idOrCriteria, criteria); resource is a string
getRequestPath(resource, idOrCriteria, criteria) ==
  LET hasSlash == resource.s # <<>> /\ resource.s[Len(resource.s)] = "/"
      isId == idOrCriteria.t \in {"string", "number"}
      withId == IF isId
                  THEN join(resource.s, String(idOrCriteria))
                       \o (IF hasSlash THEN <<"/">> ELSE <<>>)
                  ELSE resource.s
      filter == IF isId THEN criteria ELSE idOrCriteria
  IN IF IsObject(filter) /\ filter # Null
       THEN withId \o <<"?">> \o buildQueryString(filter)
     ELSE IF Truthy(filter)
       THEN withId \o (IF hasSlash THEN <<>> ELSE <<"/">>) \o String(filter)
            \o (IF hasSlash THEN <<"/">> ELSE <<>>)
     ELSE withId

\* the first statement of request: the merge of the defaults, the per-call
\* options and {method, body}
mergedOptions(client, method, body, options) ==
  extend(Obj(<<[k |-> HeadersKey, v |-> Obj(<<>>)]>>),
         <<client.defaults, Or(options, Obj(<<>>)),
           Obj(<<[k |-> MethodKey, v |-> method], [k |-> BodyKey, v |-> body]>>)>>)

\* the content type request reads from the merged headers
contentTypeOf(requestOptions) ==
  Or(Member(Member(requestOptions, HeadersKey), ContentTypeKey),
     Member(Member(requestOptions, HeadersKey), ContentTypeLowerKey))

\* whether request serialises the body
serialises(body, contentType) == IsObject(body) /\ body # Null /\ Truthy(contentType)

\* contentType.toLowerCase() === 'application/json'
isJson(contentType) == toLowerCase(contentType.s) = AppJson.s

\* DefaultRest.request up to its call of client.fetch: the (path, options)
\* handed to the transport
request(client, method, path, body, options) ==
  LET requestOptions == mergedOptions(client, method, body, options)
      contentType == contentTypeOf(requestOptions)
      sent == IF serialises(body, contentType)
                THEN Put(requestOptions, BodyKey,
                         IF isJson(contentType)
                           THEN Str(JSONstringify(body))
                           ELSE Str(buildQueryString(body)))
                ELSE requestOptions
  IN [path |-> path, options |-> sent]

\* a status check that takes only 2xx for a success
statusOk2xx(response) == response.status >= 200 /\ response.status < 300

\* a status check without its lower bound
statusOkBelow400(response) == response.status < 400

\* the then-callback of request: what the promise does with a response
\* whose status is in [200, 400): it goes on to response.json()
statusOk(response) == response.status >= 200 /\ response.status < 400

\* new Error('must implement')
MustImplement == [t |-> "Error", message |-> "must implement"]

\* a base request that returns a rejected promise
RestRequestRejecting(client, method, path, body, options) ==
  [rejected |-> MustImplement]

\* Rest.request of the base class: it throws
RestRequest(client, method, path, body, options) == [thrown |-> MustImplement]

\* this.request(...) in the CRUD methods: the request of the client's class
thisRequest(client, method, path, body, options) ==
  IF client.class = "DefaultRest"
    THEN request(client, method, path, body, options)
    ELSE RestRequest(client, method, path, body, options)

GET == Str(<<"G","E","T">>)

POST == Str(<<"P","O","S","T">>)

PUT == Str(<<"P","U","T">>)

PATCH == Str(<<"P","A","T","C","H">>)

DELETE == Str(<<"D","E","L","E","T","E">>)

find(client, resource, criteria, options) ==
  thisRequest(client, GET, getRequestPath(resource, criteria, Undefined), Undefined, options)

findOne(client, resource, id, criteria, options) ==
  thisRequest(client, GET, getRequestPath(resource, id, criteria), Undefined, options)

post(client, resource, body, options) ==
  thisRequest(client, POST, resource.s, body, options)

update(client, resource, criteria, body, options) ==
  thisRequest(client, PUT, getRequestPath(resource, criteria, Undefined), body, options)

updateOne(client, resource, id, criteria, body, options) ==
  thisRequest(client, PUT, getRequestPath(resource, id, criteria), body, options)

\* a patch that sends PUT
patchAsPut(client, resource, criteria, body, options) ==
  thisRequest(client, PUT, getRequestPath(resource, criteria, Undefined), body, options)

patch(client, resource, criteria, body, options) ==
  thisRequest(client, PATCH, getRequestPath(resource, criteria, Undefined), body, options)

patchOne(client, resource, id, criteria, body, options) ==
  thisRequest(client, PATCH, getRequestPath(resource, id, criteria), body, options)

destroy(client, resource, criteria, options) ==
  thisRequest(client, DELETE, getRequestPath(resource, criteria, Undefined), Undefined, options)

destroyOne(client, resource, id, criteria, options) ==
  thisRequest(client, DELETE, getRequestPath(resource, id, criteria), Undefined, options)

\* a create that goes the way of update
createAsUpdate(client, resource, body, options) ==
  update(client, resource, Undefined, body, options)

create(client, resource, body, options) == post(client, resource, body, options)

(***************************************************************************)
(* Objects by reference. The heap is the sequence of the objects created   *)
(* so far; an object is a plain object or a Headers instance and holds     *)
(* its properties in insertion order; a property's value is a primitive    *)
(* value or a reference Ref(a) to the object at address a. request is      *)
(* modelled on the heap as well, so that what it writes to, and what it    *)
(* shares with the client's defaults and the caller's arguments, shows.    *)
(***************************************************************************)
Ref(a) == [t |-> "ref", a |-> a]

RECURSIVE Store(_, _)
RECURSIVE StoreProps(_, _, _)
\* the object literal v evaluated on heap h: the new heap and the value, a
\* reference to the new object (nested literals are created first)
Store(h, v) ==
  IF v.t = "object"
    THEN LET inner == StoreProps(h, v.props, <<>>)
         IN [heap |-> Append(inner.heap, [kind |-> "object", props |-> inner.props]),
             v |-> Ref(Len(inner.heap) + 1)]
  ELSE IF v.t = "Headers"
    THEN [heap |-> Append(h, [kind |-> "Headers", props |-> v.entries]),
          v |-> Ref(Len(h) + 1)]
  ELSE [heap |-> h, v |-> v]

\* the properties of an object literal evaluated in order
StoreProps(h, props, done) ==
  IF props = <<>> THEN [heap |-> h, props |-> done]
  ELSE LET stored == Store(h, Head(props).v)
       IN StoreProps(stored.heap, Tail(props),
                     Append(done, [k |-> Head(props).k, v |-> stored.v]))

RECURSIVE Load(_, _)
\* the value that v is on heap h, with the objects it refers to
Load(h, v) ==
  IF v.t # "ref" THEN v
  ELSE IF h[v.a].kind = "Headers" THEN Headers(h[v.a].props)
  ELSE Obj([i \in 1..Len(h[v.a].props) |->
              [k |-> h[v.a].props[i].k, v |-> Load(h, h[v.a].props[i].v)]])

\* isPlainObject(v) for a value on the heap
isPlainOnHeap(h, v) == v.t = "ref" /\ h[v.a].kind = "object"

\* v[k] on the heap: an own property of a plain object, else undefined
MemberOnHeap(h, v, k) ==
  IF isPlainOnHeap(h, v) /\ \E i \in 1..Len(h[v.a].props) : h[v.a].props[i].k = k
    THEN h[v.a].props[CHOOSE i \in 1..Len(h[v.a].props) : h[v.a].props[i].k = k].v
    ELSE Undefined

\* target[k] = v: a write to the object at address target
PutOnHeap(h, target, k, v) ==
  [h EXCEPT ![target].props =
     IF \E i \in 1..Len(@) : @[i].k = k
       THEN [i \in 1..Len(@) |-> IF @[i].k = k THEN [k |-> k, v |-> v] ELSE @[i]]
       ELSE Append(@, [k |-> k, v |-> v])]

RECURSIVE extendPropsOnHeap(_, _, _)
\* extend's loop `for (name in options)` in deep mode, writing to the object
\* at address target: a plain object is merged into target's own plain
\* object of that name, or into a new {}; anything else but undefined is
\* assigned as it is, an object by reference
extendPropsOnHeap(h, target, props) ==
  IF props = <<>> THEN h
  ELSE LET name == Head(props).k
           copy == Head(props).v
           src == MemberOnHeap(h, Ref(target), name)
           reuse == isPlainOnHeap(h, src)
           withClone == IF reuse THEN h
                        ELSE Append(h, [kind |-> "object", props |-> <<>>])
           clone == IF reuse THEN src.a ELSE Len(h) + 1
           written ==
             IF copy = Ref(target) THEN h
             ELSE IF isPlainOnHeap(h, copy)
               THEN PutOnHeap(extendPropsOnHeap(withClone, clone, h[copy.a].props),
                              target, name, Ref(clone))
             ELSE IF copy # Undefined
               THEN PutOnHeap(h, target, name, copy)
             ELSE h
       IN extendPropsOnHeap(written, target, Tail(props))

RECURSIVE extendOnHeap(_, _, _)
\* extend(true, target, ...sources): null and undefined sources are skipped
extendOnHeap(h, target, sources) ==
  IF sources = <<>> THEN h
  ELSE IF Head(sources).t # "ref" THEN extendOnHeap(h, target, Tail(sources))
  ELSE extendOnHeap(extendPropsOnHeap(h, target, h[Head(sources).a].props),
                    target, Tail(sources))

\* a request that merges into the client's defaults: extend(true,
\* this.defaults, options || {}, {method, body})
requestIntoDefaults(h, client, method, path, body, options) ==
  LET target == client.defaults.a
      h1 == IF Truthy(options) THEN h
            ELSE Append(h, [kind |-> "object", props |-> <<>>])
      given == IF Truthy(options) THEN options ELSE Ref(Len(h1))
      h2 == Append(h1, [kind |-> "object",
                        props |-> <<[k |-> MethodKey, v |-> method],
                                    [k |-> BodyKey, v |-> body]>>])
      h3 == extendOnHeap(h2, target, <<given, Ref(Len(h2))>>)
      headers == MemberOnHeap(h3, Ref(target), HeadersKey)
      contentType == Or(MemberOnHeap(h3, headers, ContentTypeKey),
                        MemberOnHeap(h3, headers, ContentTypeLowerKey))
      h4 == IF body.t = "ref" /\ Truthy(contentType)
              THEN PutOnHeap(h3, target, BodyKey,
                             IF isJson(contentType)
                               THEN Str(JSONstringify(Load(h3, body)))
                               ELSE Str(buildQueryString(Load(h3, body))))
              ELSE h3
  IN [heap |-> h4, path |-> path, options |-> Ref(target)]

\* DefaultRest.request up to its call of client.fetch, on the heap: the new
\* heap, and the (path, options) handed to the transport. The literals
\* {headers: {}}, {} (for absent options) and {method, body} are new objects.
requestOnHeap(h, client, method, path, body, options) ==
  LET h0 == Append(Append(h, [kind |-> "object", props |-> <<>>]),
                   [kind |-> "object",
                    props |-> <<[k |-> HeadersKey, v |-> Ref(Len(h) + 1)]>>])
      target == Len(h0)
      h1 == IF Truthy(options) THEN h0
            ELSE Append(h0, [kind |-> "object", props |-> <<>>])
      given == IF Truthy(options) THEN options ELSE Ref(Len(h1))
      h2 == Append(h1, [kind |-> "object",
                        props |-> <<[k |-> MethodKey, v |-> method],
                                    [k |-> BodyKey, v |-> body]>>])
      h3 == extendOnHeap(h2, target, <<client.defaults, given, Ref(Len(h2))>>)
      headers == MemberOnHeap(h3, Ref(target), HeadersKey)
      contentType == Or(MemberOnHeap(h3, headers, ContentTypeKey),
                        MemberOnHeap(h3, headers, ContentTypeLowerKey))
      h4 == IF body.t = "ref" /\ Truthy(contentType)
              THEN PutOnHeap(h3, target, BodyKey,
                             IF isJson(contentType)
                               THEN Str(JSONstringify(Load(h3, body)))
                               ELSE Str(buildQueryString(Load(h3, body))))
              ELSE h3
  IN [heap |-> h4, path |-> path, options |-> Ref(target)]

\* find and post of a DefaultRest, on the heap
InvokeOnHeap(h, client, op, a) ==
  CASE op = "find" ->
         requestOnHeap(h, client, GET, getRequestPath(a.resource, a.criteria, Undefined),
                       Undefined, a.options)
    [] op = "post" -> requestOnHeap(h, client, POST, a.resource.s, a.body, a.options)

(***************************************************************************)
(* Inputs of the registry operations.                                      *)
(***************************************************************************)
\* a caller's defaults argument: plain headers, no Accept
CustomDefaults ==
  Obj(<<[k |-> HeadersKey, v |-> Obj(<<[k |-> ContentTypeKey, v |-> AppJson]>>)]>>)

\* registerEndpoint's (configureMethod, defaults): configureMethod absent, a
\* base url or a configure function; defaults absent or given
Sources ==
  {<<Undefined, Undefined>>, <<UrlB, CustomDefaults>>, <<Fn("configure"), Undefined>>}

\* setDefaultBaseUrl's argument: a url, or the empty string
BaseUrls == {UrlA, Str(<<>>)}

\* the names a bulk configuration's entries register
EntryNames == {"a", "b"}

\* one entry of a bulk configuration's endpoints array: registered with
\* neither endpoint nor config, or with both
Entries ==
  {[name |-> n, endpoint |-> src[1], config |-> src[2], default |-> d] :
     n \in EntryNames, src \in {<<Undefined, Undefined>>, <<UrlB, CustomDefaults>>},
     d \in BOOLEAN}

\* sequences over S of length at most n
SeqUpTo(S, n) == UNION {[1..k -> S] : k \in 0..n}

\* the bulk configurations that create at most `room` clients
Configs(room) ==
  [defaultBaseUrl : {Undefined, UrlA}, defaultEndpoint : Names,
   endpoints : SeqUpTo(Entries, IF room < MaxEntries THEN room ELSE MaxEntries)]

(***************************************************************************)
(* The registry's operations as actions. last records the latest call.     *)
(***************************************************************************)
NoCall == [op |-> "none"]

RegistryInit ==
  /\ config = NewConfig
  /\ last = NoCall

RegisterEndpoint ==
  /\ config.allocated < MaxClients
  /\ \E name \in Names, src \in Sources :
       /\ config' = registerEndpoint(config, name, src[1], src[2])
       /\ last' = [op |-> "registerEndpoint", name |-> name,
                   configureMethod |-> src[1], defaults |-> src[2],
                   previous |-> IF name \in DOMAIN config.endpoints
                                  THEN config.endpoints[name] ELSE Undefined]

SetDefaultEndpoint ==
  \E name \in Names :
    /\ config' = setDefaultEndpoint(config, name)
    /\ last' = [op |-> "setDefaultEndpoint", name |-> name]

SetDefaultBaseUrl ==
  \E baseUrl \in BaseUrls :
    /\ config' = setDefaultBaseUrl(config, baseUrl)
    /\ last' = [op |-> "setDefaultBaseUrl", baseUrl |-> baseUrl]

Configure ==
  \E cfg \in Configs(MaxClients - config.allocated) :
    /\ config' = configure(config, cfg)
    /\ last' = [op |-> "configure", cfg |-> cfg]

(***************************************************************************)
(* Inputs of the Rest client's operations.                                 *)
(***************************************************************************)
\* 'application/x-www-form-urlencoded', abridged
FormType == Str(<<"f","o","r","m">>)

\* the defaults of the client under test: the built-in ones, or custom ones
\* as registerEndpoint sets them
RestDefaults ==
  {BuiltinDefaults,
   CustomDefaults,
   Obj(<<[k |-> HeadersKey,
          v |-> Obj(<<[k |-> ContentTypeLowerKey,
                       v |-> Str(<<"A","p","p","l","i","c","a","t","i","o","n","/",
                                   "J","S","O","N">>)]>>)]>>),
   Obj(<<[k |-> HeadersKey, v |-> Obj(<<[k |-> ContentTypeKey, v |-> FormType]>>)]>>),
   Obj(<<[k |-> MethodKey, v |-> Str(<<"H","E","A","D">>)],
         [k |-> BodyKey, v |-> Str(<<"d">>)]>>)}

Resources == {Str(<<"u","/">>)}

Ids == {Num(5)}

\* a filter: absent, or a mapping
Criterias == {Undefined, Obj(<<[k |-> <<"q">>, v |-> Num(1)]>>)}

\* a body: absent, null, a string, a structured value
Bodies ==
  {Undefined, Null, Str(<<"x">>),
   Obj(<<[k |-> <<"b">>, v |-> Str(<<"x"," ","\"">>)], [k |-> <<"a">>, v |-> Num(10)]>>)}

\* per-call options: absent, a header, or entries for method and body
Options ==
  {Undefined,
   Obj(<<[k |-> HeadersKey, v |-> Obj(<<[k |-> ContentTypeLowerKey, v |-> FormType]>>)]>>),
   Obj(<<[k |-> MethodKey, v |-> Str(<<"O","P","T","I","O","N","S">>)],
         [k |-> BodyKey, v |-> Obj(<<[k |-> <<"o">>, v |-> Num(7)]>>)]>>)}

\* the arguments of one CRUD call; an operation reads the ones it takes
Arguments ==
  [resource : Resources, id : Ids, criteria : Criterias, body : Bodies,
   options : Options]

Operations ==
  {"find", "findOne", "post", "update", "updateOne", "patch", "patchOne",
   "destroy", "destroyOne", "create"}

\* the operations that take an id, a criteria, a body
TakesId == {"findOne", "updateOne", "patchOne", "destroyOne"}

TakesCriteria == Operations \ {"post", "create"}

TakesBody == {"post", "create", "update", "updateOne", "patch", "patchOne"}

\* the arguments as the operation receives them: the ones it does not take
\* are absent
Taken(op, a) ==
  [resource |-> a.resource,
   id |-> IF op \in TakesId THEN a.id ELSE Undefined,
   criteria |-> IF op \in TakesCriteria THEN a.criteria ELSE Undefined,
   body |-> IF op \in TakesBody THEN a.body ELSE Undefined,
   options |-> a.options]

\* client[op](...a): the (path, options) the operation hands to the transport
Invoke(client, op, a) ==
  CASE op = "find" -> find(client, a.resource, a.criteria, a.options)
    [] op = "findOne" -> findOne(client, a.resource, a.id, a.criteria, a.options)
    [] op = "post" -> post(client, a.resource, a.body, a.options)
    [] op = "update" -> update(client, a.resource, a.criteria, a.body, a.options)
    [] op = "updateOne" ->
         updateOne(client, a.resource, a.id, a.criteria, a.body, a.options)
    [] op = "patch" -> patch(client, a.resource, a.criteria, a.body, a.options)
    [] op = "patchOne" ->
         patchOne(client, a.resource, a.id, a.criteria, a.body, a.options)
    [] op = "destroy" -> destroy(client, a.resource, a.criteria, a.options)
    [] op = "destroyOne" ->
         destroyOne(client, a.resource, a.id, a.criteria, a.options)
    [] op = "create" -> create(client, a.resource, a.body, a.options)

\* what the transport answers: a status, and what response.json() settles to
ParseFailure == [t |-> "SyntaxError"]

Parsed == Obj(<<[k |-> <<"i","d">>, v |-> Num(1)]>>)

Responses ==
  [t : {"Response"}, status : {199, 200, 399, 400, 404}, json : {Parsed, ParseFailure}]

\* failures of the transport itself
NetworkError == [t |-> "TypeError"]

AbortError == [t |-> "AbortError"]

TransportFailures == {NetworkError, AbortError}

(***************************************************************************)
(* A CRUD call on the client under test, and its promise.                  *)
(*   call.state: "pending"  - client.fetch was called, no response yet     *)
(*               "parsing"  - the then-callback returned response.json()   *)
(*               "resolved" / "rejected" - the returned promise settled    *)
(***************************************************************************)
RequestInit ==
  /\ rest = Null
  /\ call = NoCall
  /\ issued = 0
  /\ fetched = 0
  /\ heap = <<>>
  /\ inflight = <<>>
  /\ resolver = Null

\* the client under test: a DefaultRest with its defaults possibly replaced;
\* the registry is left as constructed
InitRequest ==
  /\ config = NewConfig
  /\ last = NoCall
  /\ rest \in {[DefaultRest(1, HttpClient, "api") EXCEPT !.defaults = d] : d \in RestDefaults}
  /\ call = NoCall
  /\ issued = 0
  /\ fetched = 0
  /\ heap = <<>>
  /\ inflight = <<>>
  /\ resolver = Null

\* a CRUD method is called: it runs request up to client.fetch, unless
\* request throws or returns a promise that is rejected already
Call ==
  /\ issued < MaxCalls
  /\ \E op \in Operations :
       \E taken \in {Taken(op, a) : a \in Arguments} :
         \E result \in {Invoke(rest, op, taken)} :
           /\ call' = [op |-> op, args |-> taken, request |-> result,
                       state |-> IF "thrown" \in DOMAIN result THEN "thrown"
                                 ELSE IF "rejected" \in DOMAIN result THEN "rejected"
                                 ELSE "pending",
                       response |-> Undefined,
                       value |-> IF "thrown" \in DOMAIN result THEN result.thrown
                                 ELSE IF "rejected" \in DOMAIN result
                                   THEN result.rejected
                                 ELSE Undefined,
                       parsed |-> FALSE, failure |-> Undefined]
           /\ fetched' = IF "path" \in DOMAIN result THEN fetched + 1 ELSE fetched
  /\ issued' = issued + 1
  /\ UNCHANGED rest

\* the transport answers: the then-callback of request runs
Respond ==
  /\ call.op # "none"
  /\ call.state = "pending"
  /\ \E response \in Responses :
       call' = IF statusOk(response)
                 THEN [call EXCEPT !.state = "parsing", !.response = response,
                                   !.parsed = TRUE]
                 ELSE [call EXCEPT !.state = "rejected", !.response = response,
                                   !.value = response]
  /\ UNCHANGED <<rest, issued, fetched>>

\* response.json() settles; its rejection is caught and becomes null
JsonSettles ==
  /\ call.op # "none"
  /\ call.state = "parsing"
  /\ call' = [call EXCEPT !.state = "resolved",
                          !.value = IF call.response.json = ParseFailure
                                      THEN Null
                                      ELSE call.response.json]
  /\ UNCHANGED <<rest, issued, fetched>>

\* a then-callback chain that recovers from every failure
fetchRejectedRecovering(c, failure) ==
  [c EXCEPT !.state = "resolved", !.value = Null, !.failure = failure]

\* the promise of client.fetch is rejected: then(callback) was given no
\* rejection handler, and the catch inside the callback is never reached
fetchRejected(c, failure) ==
  [c EXCEPT !.state = "rejected", !.value = failure, !.failure = failure]

\* client.fetch rejects
TransportFails ==
  /\ call.op # "none"
  /\ call.state = "pending"
  /\ \E failure \in TransportFailures : call' = fetchRejected(call, failure)
  /\ UNCHANGED <<rest, issued, fetched>>

Init == RegistryInit /\ RequestInit

Next ==
  \/ RegisterEndpoint /\ UNCHANGED <<rest, call, issued, fetched, heap, inflight, resolver>>
  \/ SetDefaultEndpoint /\ UNCHANGED <<rest, call, issued, fetched, heap, inflight, resolver>>
  \/ SetDefaultBaseUrl /\ UNCHANGED <<rest, call, issued, fetched, heap, inflight, resolver>>
  \/ Configure /\ UNCHANGED <<rest, call, issued, fetched, heap, inflight, resolver>>

\* the registry
Spec == Init /\ [][Next]_vars

RequestNext ==
  \/ Call /\ UNCHANGED <<config, last, heap, inflight, resolver>>
  \/ Respond /\ UNCHANGED <<config, last, heap, inflight, resolver>>
  \/ JsonSettles /\ UNCHANGED <<config, last, heap, inflight, resolver>>
  \/ TransportFails /\ UNCHANGED <<config, last, heap, inflight, resolver>>

\* one Rest client and the calls made on it
SpecRequest == InitRequest /\ [][RequestNext]_vars

\* the client under test is of the base class, or a DefaultRest as constructed
InitFailure ==
  /\ config = NewConfig
  /\ last = NoCall
  /\ rest \in {Rest(1, HttpClient, "api"), DefaultRest(1, HttpClient, "api")}
  /\ call = NoCall
  /\ issued = 0
  /\ fetched = 0
  /\ heap = <<>>
  /\ inflight = <<>>
  /\ resolver = Null

\* the calls made on a client of either class, and how they fail
SpecFailure == InitFailure /\ [][RequestNext]_vars

(***************************************************************************)
(* Path building: the CRUD methods called with many shapes of resource,    *)
(* id and criteria, and neither body nor options.                          *)
(***************************************************************************)
\* resources: without and with a trailing slash, of several segments, and
\* with an empty segment
PathResources ==
  {Str(<<"u">>), Str(<<"u","/">>), Str(<<"/","a","/","b">>), Str(<<"a","/","/","b">>)}

\* a filter mapping whose keys are not in sorted order
PathFilter ==
  Obj(<<[k |-> <<"b">>, v |-> Str(<<"x"," ","y">>)], [k |-> <<"a">>, v |-> Num(10)]>>)

\* what callers pass as id: absent, null, numbers (0 too), strings, mappings
PathIds ==
  {Undefined, Null, Num(0), Num(5), Str(<<"7">>), Str(<<".">>), Obj(<<>>), PathFilter}

\* what callers pass as criteria: absent, null, scalars (falsy ones too),
\* mappings (the empty one too)
PathCriterias ==
  {Undefined, Null, Str(<<"z">>), Num(3), Num(0), Str(<<>>), Obj(<<>>), PathFilter}

PathArguments ==
  [resource : PathResources, id : PathIds, criteria : PathCriterias,
   body : {Undefined}, options : {Undefined}]

\* the client whose methods build the paths: a DefaultRest as constructed
InitPath ==
  /\ config = NewConfig
  /\ last = NoCall
  /\ rest = DefaultRest(1, HttpClient, "api")
  /\ call = NoCall
  /\ issued = 0
  /\ fetched = 0
  /\ heap = <<>>
  /\ inflight = <<>>
  /\ resolver = Null

\* a CRUD method that builds a path is called: it runs getRequestPath and
\* request up to client.fetch
PathCall ==
  /\ issued < MaxCalls
  /\ \E op \in TakesCriteria, a \in PathArguments :
       /\ call' = [op |-> op, args |-> Taken(op, a),
                   request |-> Invoke(rest, op, Taken(op, a)),
                   state |-> "pending", response |-> Undefined,
                   value |-> Undefined, parsed |-> FALSE, failure |-> Undefined]
  /\ issued' = issued + 1
  /\ fetched' = fetched + 1
  /\ UNCHANGED <<rest, config, last, heap, inflight, resolver>>

\* post or create is called, with a body and per-call options
PostCall ==
  /\ issued < MaxCalls
  /\ \E op \in {"post", "create"}, resource \in PathResources, body \in Bodies,
        options \in Options :
       LET a == [resource |-> resource, id |-> Undefined, criteria |-> Undefined,
                 body |-> body, options |-> options]
       IN call' = [op |-> op, args |-> Taken(op, a),
                   request |-> Invoke(rest, op, Taken(op, a)),
                   state |-> "pending", response |-> Undefined,
                   value |-> Undefined, parsed |-> FALSE, failure |-> Undefined]
  /\ issued' = issued + 1
  /\ fetched' = fetched + 1
  /\ UNCHANGED <<rest, config, last, heap, inflight, resolver>>

PathNext == PathCall \/ PostCall

\* the paths the CRUD methods build
SpecPath == InitPath /\ [][PathNext]_vars

(***************************************************************************)
(* Lookups in the registry, by name and through a resolver. The resolver   *)
(* is created before the registry is configured, as a class that declares  *)
(* its dependencies does.                                                  *)
(***************************************************************************)
\* the keys resolvers are made for: none (the default endpoint), and a name
ResolverKeys == {"", "a"}

InitLookup ==
  /\ config = NewConfig
  /\ last = NoCall
  /\ rest = Null
  /\ call = NoCall
  /\ issued = 0
  /\ fetched = 0
  /\ heap = <<>>
  /\ inflight = <<>>
  /\ resolver \in {Endpoint_of(key) : key \in ResolverKeys}

\* the resolver is used: Endpoint.get
Get ==
  LET got == Endpoint_get(resolver, config)
  IN /\ resolver' = got.self
     /\ last' = [op |-> "get", key |-> resolver.key, result |-> got.result]
     /\ UNCHANGED config

\* Config.getEndpoint(name) is called: it assigns nothing
GetEndpoint ==
  /\ \E name \in Names :
       last' = [op |-> "getEndpoint", name |-> name, result |-> getEndpoint(config, name)]
  /\ UNCHANGED <<config, resolver>>

\* Config.endpointExists(name) is called: it assigns nothing
EndpointExists ==
  /\ \E name \in Names :
       last' = [op |-> "endpointExists", name |-> name,
                result |-> endpointExists(config, name)]
  /\ UNCHANGED <<config, resolver>>

LookupNext ==
  \/ RegisterEndpoint /\ UNCHANGED <<rest, call, issued, fetched, heap, inflight, resolver>>
  \/ SetDefaultEndpoint /\ UNCHANGED <<rest, call, issued, fetched, heap, inflight, resolver>>
  \/ SetDefaultBaseUrl /\ UNCHANGED <<rest, call, issued, fetched, heap, inflight, resolver>>
  \/ Get /\ UNCHANGED <<rest, call, issued, fetched, heap, inflight>>
  \/ GetEndpoint /\ UNCHANGED <<rest, call, issued, fetched, heap, inflight>>
  \/ EndpointExists /\ UNCHANGED <<rest, call, issued, fetched, heap, inflight>>

\* the registry, its lookups and a resolver
SpecLookup == InitLookup /\ [][LookupNext]_vars

(***************************************************************************)
(* Requests in flight together on one client. The defaults objects, the    *)
(* caller's options object and the caller's body object exist before the   *)
(* calls and are passed by reference, the same object to several calls.    *)
(***************************************************************************)
\* the defaults the client's defaults field is set to, one after the other
FlightDefaults == <<BuiltinDefaults, CustomDefaults>>

\* the caller's options object
FlightOptions ==
  <<Obj(<<[k |-> HeadersKey, v |-> Obj(<<[k |-> ContentTypeLowerKey, v |-> FormType]>>)]>>)>>

\* the caller's body object
FlightBodies == <<Obj(<<[k |-> <<"b">>, v |-> Str(<<"x">>)], [k |-> <<"a">>, v |-> Num(10)]>>)>>

RECURSIVE StoreAll(_, _, _)
\* the object literals `values` evaluated in order: the heap and the references
StoreAll(h, values, refs) ==
  IF values = <<>> THEN [heap |-> h, refs |-> refs]
  ELSE LET stored == Store(h, Head(values))
       IN StoreAll(stored.heap, Tail(values), Append(refs, stored.v))

\* the objects that exist before the calls
Objects == StoreAll(<<>>, FlightDefaults \o FlightOptions \o FlightBodies, <<>>)

DefaultsRefs == {Objects.refs[i] : i \in 1..Len(FlightDefaults)}

OptionsRefs ==
  {Objects.refs[Len(FlightDefaults) + i] : i \in 1..Len(FlightOptions)}

BodyRefs ==
  {Objects.refs[Len(FlightDefaults) + Len(FlightOptions) + i] :
     i \in 1..Len(FlightBodies)}

\* the methods called concurrently: one without and one with a body
FlightOperations == {"find", "post"}

FlightResponses == [t : {"Response"}, status : {200, 404}, json : {Parsed}]

InitFlight ==
  /\ config = NewConfig
  /\ last = NoCall
  /\ call = NoCall
  /\ issued = 0
  /\ fetched = 0
  /\ heap = Objects.heap
  /\ rest \in {[DefaultRest(1, HttpClient, "api") EXCEPT !.defaults = d] :
                 d \in DefaultsRefs}
  /\ inflight = <<>>
  /\ resolver = Null

\* client.defaults = d: the client's defaults are replaced between calls
SetDefaults ==
  /\ \E d \in DefaultsRefs \ {rest.defaults} : rest' = [rest EXCEPT !.defaults = d]
  /\ UNCHANGED <<config, last, call, issued, fetched, heap, inflight, resolver>>

\* find or post is called while earlier calls are in flight; `given` keeps
\* what the defaults and the arguments were at the call
FlightCall ==
  /\ Len(inflight) < MaxInFlight
  /\ \E op \in FlightOperations, options \in {Undefined} \cup OptionsRefs,
        body \in BodyRefs :
       LET a == [resource |-> Str(<<"u","/">>), criteria |-> Undefined,
                 body |-> IF op = "post" THEN body ELSE Undefined,
                 options |-> options]
           result == InvokeOnHeap(heap, rest, op, a)
       IN /\ heap' = result.heap
          /\ inflight' =
               Append(inflight,
                      [op |-> op, args |-> a,
                       given |-> [defaults |-> Load(heap, rest.defaults),
                                  options |-> Load(heap, a.options),
                                  body |-> Load(heap, a.body)],
                       request |-> [path |-> result.path, options |-> result.options],
                       state |-> "pending", response |-> Undefined,
                       value |-> Undefined])
  /\ issued' = issued + 1
  /\ fetched' = fetched + 1
  /\ UNCHANGED <<config, last, rest, call, resolver>>

\* the transport answers one of the calls in flight, in any order
FlightRespond ==
  /\ \E i \in 1..Len(inflight), response \in FlightResponses :
       /\ inflight[i].state = "pending"
       /\ inflight' =
            [inflight EXCEPT ![i] =
               IF statusOk(response)
                 THEN [@ EXCEPT !.state = "parsing", !.response = response]
                 ELSE [@ EXCEPT !.state = "rejected", !.response = response,
                                !.value = response]]
  /\ UNCHANGED <<config, last, rest, call, issued, fetched, heap, resolver>>

\* response.json() of one of the calls settles
FlightJsonSettles ==
  /\ \E i \in 1..Len(inflight) :
       /\ inflight[i].state = "parsing"
       /\ inflight' =
            [inflight EXCEPT ![i] =
               [@ EXCEPT !.state = "resolved",
                         !.value = IF inflight[i].response.json = ParseFailure
                                     THEN Null
                                   ELSE inflight[i].response.json]]
  /\ UNCHANGED <<config, last, rest, call, issued, fetched, heap, resolver>>

\* client.fetch of one of the calls rejects
FlightTransportFails ==
  /\ \E i \in 1..Len(inflight) :
       /\ inflight[i].state = "pending"
       /\ inflight' = [inflight EXCEPT ![i] =
                         [@ EXCEPT !.state = "rejected", !.value = NetworkError]]
  /\ UNCHANGED <<config, last, rest, call, issued, fetched, heap, resolver>>

FlightNext ==
  \/ SetDefaults
  \/ FlightCall
  \/ FlightRespond
  \/ FlightJsonSettles
  \/ FlightTransportFails

\* one client and the calls in flight on it
SpecFlight == InitFlight /\ [][FlightNext]_vars

(***************************************************************************)
(* The claims about the registry, checked under Spec.                      *)
(***************************************************************************)
\* C1: a default endpoint that is a client is the very client that endpoints
\* maps some name to, also after the default's name is registered again.
C1_DefaultEndpointIsRegistered ==
  config.defaultEndpoint.t = "Rest" =>
    \E n \in DOMAIN config.endpoints : config.endpoints[n] = config.defaultEndpoint

\* C2: setDefaultEndpoint(name) with a name that is not registered leaves the
\* default endpoint null, and getEndpoint() then returns null.
C2_UnregisteredDefaultIsNull ==
  (last.op = "setDefaultEndpoint" /\ last.name # ""
     /\ last.name \notin DOMAIN config.endpoints) =>
    (config.defaultEndpoint = Null /\ getEndpoint(config, "") = Null)

\* C4 as stated: after a name is registered again, getEndpoint(name) returns
\* the client of the second registration, for every name.
C4_SecondRegistrationWins_AnyName ==
  (last.op = "registerEndpoint" /\ last.previous # Undefined) =>
    LET got == getEndpoint(config, last.name)
    IN got.t = "Rest" /\ got.id = config.allocated

\* C4 amended: for every non-empty name, after the name is registered again
\* getEndpoint(name) returns the client the second call created, with the
\* second call's transport and defaults and nothing of the first's.
C4_SecondRegistrationWins ==
  (last.op = "registerEndpoint" /\ last.previous # Undefined /\ last.name # "") =>
    LET got == getEndpoint(config, last.name)
        source == last.configureMethod
    IN /\ got.t = "Rest"
       /\ got.id = config.allocated
       /\ got.id # last.previous.id
       /\ got.endpoint = last.name
       /\ got.defaults = (IF last.defaults = Undefined THEN BuiltinDefaults
                          ELSE last.defaults)
       /\ got.client =
            (IF source.t = "function"
               THEN [t |-> "HttpClient", baseUrl |-> Str(<<>>), configuredBy |-> source]
             ELSE IF source.t = "string"
               THEN [t |-> "HttpClient", baseUrl |-> source, configuredBy |-> Undefined]
             ELSE IF Truthy(config.defaultBaseUrl)
               THEN [t |-> "HttpClient", baseUrl |-> config.defaultBaseUrl,
                     configuredBy |-> Undefined]
             ELSE [t |-> "HttpClient", baseUrl |-> Str(<<>>),
                   configuredBy |-> Undefined])

\* C4's case: a non-empty name registered a second time, with another
\* transport and other defaults than the first time
C4_Witness ==
  /\ last.op = "registerEndpoint"
  /\ last.name = "a"
  /\ last.previous # Undefined
  /\ getEndpoint(config, "a").defaults # last.previous.defaults
  /\ getEndpoint(config, "a").client # last.previous.client

\* C5: getEndpoint(name) returns null for every name that was not registered.
C5_UnregisteredIsNull ==
  \A n \in Names \ {""} :
    n \notin DOMAIN config.endpoints => getEndpoint(config, n) = Null

\* C6: after configure(cfg) with a top-level defaultEndpoint d, the default
\* endpoint is the client registered under d, and null when d is not
\* registered, whatever the entries' default flags and the earlier default.
C6_TopLevelDefaultWins ==
  (last.op = "configure" /\ last.cfg.defaultEndpoint # "") =>
    config.defaultEndpoint =
      (IF last.cfg.defaultEndpoint \in DOMAIN config.endpoints
         THEN config.endpoints[last.cfg.defaultEndpoint]
         ELSE Null)

\* C16: registerEndpoint gives the new client's transport its base url from
\* the source: a string is the base url, also when a default base url is
\* set; a function is applied to the transport and the default base url is
\* not; without a source the default base url is the base url if one is
\* set, and else the transport is left as constructed.
C16_BaseUrlBySource ==
  last.op = "registerEndpoint" =>
    LET client == config.endpoints[last.name].client
        source == last.configureMethod
    IN /\ source.t = "string" =>
            client = [t |-> "HttpClient", baseUrl |-> source, configuredBy |-> Undefined]
       /\ source.t = "function" =>
            client = [t |-> "HttpClient", baseUrl |-> Str(<<>>), configuredBy |-> source]
       /\ (source = Undefined /\ Truthy(config.defaultBaseUrl)) =>
            client = [t |-> "HttpClient", baseUrl |-> config.defaultBaseUrl,
                      configuredBy |-> Undefined]
       /\ (source = Undefined /\ ~Truthy(config.defaultBaseUrl)) =>
            client = [t |-> "HttpClient", baseUrl |-> Str(<<>>),
                      configuredBy |-> Undefined]

\* C16's case: with the default base url '/a' set, an endpoint is registered
\* with the base url '/b'
C16_Witness ==
  /\ last.op = "registerEndpoint"
  /\ last.configureMethod = UrlB
  /\ config.defaultBaseUrl = UrlA
  /\ config.endpoints[last.name].client.baseUrl = UrlB

\* C17: the defaults of a client registered with a defaults argument are
\* that argument, with no built-in header kept; the defaults of a client
\* registered without one are the built-in defaults.
C17_DefaultsReplaced ==
  last.op = "registerEndpoint" =>
    LET defaults == config.endpoints[last.name].defaults
    IN /\ last.defaults # Undefined => defaults = last.defaults
       /\ last.defaults = Undefined => defaults = BuiltinDefaults

\* C17's case: an endpoint is registered with defaults that hold no Accept
\* header, and its defaults hold none
C17_Witness ==
  /\ last.op = "registerEndpoint"
  /\ last.defaults = CustomDefaults
  /\ config.endpoints[last.name].defaults = CustomDefaults
  /\ Member(Member(config.endpoints[last.name].defaults, HeadersKey), AcceptKey) = Undefined

(***************************************************************************)
(* The claims about requests, checked under SpecRequest.                   *)
(***************************************************************************)
\* C3: the method and the body handed to the transport come from the call's
\* own arguments only: the method is the operation's verb, and a call
\* without a body hands no body to the transport.
C3_MethodAndBodyFromArguments ==
  call.op # "none" =>
    LET sent == call.request.options
    IN /\ Member(sent, MethodKey) \in {GET, POST, PUT, PATCH, DELETE}
       /\ call.args.body = Undefined => Member(sent, BodyKey) = Undefined
       /\ call.args.body.t \in {"null", "string"} =>
            Member(sent, BodyKey) = call.args.body
       /\ call.args.body.t = "object" =>
            Member(sent, BodyKey) \in
              {call.args.body, Str(JSONstringify(call.args.body)),
               Str(buildQueryString(call.args.body))}

\* C7: a response with a status in [200, 400) resolves the call, to the
\* parsed body, or to null when parsing fails; it never rejects it.
C7_SuccessResolves ==
  (call.op # "none" /\ call.response # Undefined
     /\ call.response.status >= 200 /\ call.response.status < 400) =>
    /\ call.state \in {"parsing", "resolved"}
    /\ call.state = "resolved" =>
         call.value = (IF call.response.json = ParseFailure THEN Null ELSE Parsed)

C7_Witness ==
  /\ call.op # "none"
  /\ call.state = "resolved"
  /\ call.response.status = 399
  /\ call.response.json = ParseFailure
  /\ call.value = Null

\* C8: a response with a status below 200 or of at least 400 rejects the
\* call with the response itself, and its body is never parsed.
C8_FailureRejectsWithResponse ==
  (call.op # "none" /\ call.response # Undefined
     /\ (call.response.status < 200 \/ call.response.status >= 400)) =>
    /\ call.state = "rejected"
    /\ call.value = call.response
    /\ ~call.parsed

C8_Witness ==
  /\ call.op # "none"
  /\ call.state = "rejected"
  /\ call.value.t = "Response"
  /\ call.value.status = 199

\* C9: every call issues exactly one fetch, with the verb of its operation,
\* and nothing is fetched again after a failure.
C9_OneFetchWithVerb ==
  /\ fetched = issued
  /\ call.op # "none" =>
       Member(call.request.options, MethodKey) =
         (CASE call.op \in {"find", "findOne"} -> GET
            [] call.op \in {"post", "create"} -> POST
            [] call.op \in {"update", "updateOne"} -> PUT
            [] call.op \in {"patch", "patchOne"} -> PATCH
            [] call.op \in {"destroy", "destroyOne"} -> DELETE)

C9_Witness ==
  /\ call.op = "patch"
  /\ call.state = "rejected"
  /\ fetched = 1
  /\ Member(call.args.options, MethodKey) # Undefined

\* C10: a structured body is sent as its JSON text when the resolved content
\* type is application/json in any case, as its query string when another
\* content type is resolved, and any other body is sent unchanged.
C10_BodyByContentType ==
  call.op # "none" =>
    LET body == call.args.body
        contentType == contentTypeOf(call.request.options)
        structured == body.t = "object"
    IN Member(call.request.options, BodyKey) =
         (IF structured /\ Truthy(contentType)
            THEN IF toLowerCase(contentType.s) = AppJson.s
                   THEN Str(JSONstringify(body))
                   ELSE Str(buildQueryString(body))
            ELSE body)

\* C18: the headers handed to the transport hold every default header that
\* the per-call options do not name, with its default value, and every
\* header of the per-call options, with the per-call value.
C18_HeadersDeepMerged ==
  call.op # "none" =>
    LET entriesOf(h) == IF h.t = "Headers" THEN h.entries
                        ELSE IF h.t = "object" THEN h.props
                        ELSE <<>>
        valueOf(h, k) ==
          LET es == entriesOf(h)
          IN IF \E i \in 1..Len(es) : es[i].k = k
               THEN es[CHOOSE i \in 1..Len(es) : es[i].k = k].v
               ELSE Undefined
        defaults == entriesOf(Member(rest.defaults, HeadersKey))
        perCall == Member(call.args.options, HeadersKey)
        sent == Member(call.request.options, HeadersKey)
    IN /\ \A i \in 1..Len(defaults) :
            valueOf(perCall, defaults[i].k) = Undefined =>
              valueOf(sent, defaults[i].k) = defaults[i].v
       /\ \A i \in 1..Len(entriesOf(perCall)) :
            valueOf(sent, entriesOf(perCall)[i].k) = entriesOf(perCall)[i].v

(***************************************************************************)
(* The claims about path building, checked under SpecPath.                 *)
(***************************************************************************)
\* C11 as stated: with a string or number id and a truthy scalar criteria,
\* the path is the id-extended path, a '/' unless the resource ended with
\* '/', the scalar, and always a trailing '/'.
C11_ScalarCriteriaAlwaysSlash ==
  (call.op \in TakesId /\ call.args.id.t \in {"string", "number"}
     /\ call.args.criteria.t \in {"string", "number"} /\ Truthy(call.args.criteria)) =>
    LET r == call.args.resource.s
        hasSlash == r[Len(r)] = "/"
        idPath == Invoke(rest, call.op, [call.args EXCEPT !.criteria = Undefined]).path
    IN call.request.path =
         idPath \o (IF hasSlash THEN <<>> ELSE <<"/">>) \o String(call.args.criteria)
         \o <<"/">>

\* C11 amended: with a string or number id and a truthy scalar criteria, the
\* path is the id-extended path, a '/' unless the resource ended with '/',
\* the scalar, and a trailing '/' only if the resource ended with '/'.
C11_ScalarCriteriaAppended ==
  (call.op \in TakesId /\ call.args.id.t \in {"string", "number"}
     /\ call.args.criteria.t \in {"string", "number"} /\ Truthy(call.args.criteria)) =>
    LET r == call.args.resource.s
        hasSlash == r[Len(r)] = "/"
        idPath == Invoke(rest, call.op, [call.args EXCEPT !.criteria = Undefined]).path
    IN call.request.path =
         idPath \o (IF hasSlash THEN <<>> ELSE <<"/">>) \o String(call.args.criteria)
         \o (IF hasSlash THEN <<"/">> ELSE <<>>)

\* C11's case: findOne('u', 5, 'z') built 'u/5/z', without a trailing slash
C11_Witness ==
  /\ call.op = "findOne"
  /\ call.args.resource = Str(<<"u">>)
  /\ call.args.id = Num(5)
  /\ call.args.criteria = Str(<<"z">>)
  /\ call.request.path = <<"u","/","5","/","z">>

\* C12 as stated: for every non-empty resource r and every number or
\* non-empty string id, the path for (r, id) is r without its trailing '/',
\* one '/', the id, and a trailing '/' exactly if r ended with '/'.
C12_IdJoinedByOneSlash_AnyResource ==
  LET second == IF call.op \in TakesId THEN call.args.id ELSE call.args.criteria
      third == IF call.op \in TakesId THEN call.args.criteria ELSE Undefined
  IN (call.op # "none" /\ third = Undefined
        /\ (second.t = "number" \/ (second.t = "string" /\ second.s # <<>>))) =>
       LET r == call.args.resource.s
           hasSlash == r[Len(r)] = "/"
           stripped == IF hasSlash THEN SubSeq(r, 1, Len(r) - 1) ELSE r
       IN call.request.path =
            stripped \o <<"/">> \o String(second) \o (IF hasSlash THEN <<"/">> ELSE <<>>)

\* C12 amended: the same, for resources and ids whose segments (apart from a
\* leading and a trailing '/' of the resource) are neither empty nor '.' nor
\* '..'; the id 0 is an id.
C12_IdJoinedByOneSlash ==
  LET second == IF call.op \in TakesId THEN call.args.id ELSE call.args.criteria
      third == IF call.op \in TakesId THEN call.args.criteria ELSE Undefined
      r == call.args.resource.s
      hasSlash == r[Len(r)] = "/"
      stripped == IF hasSlash THEN SubSeq(r, 1, Len(r) - 1) ELSE r
      inner == IF stripped # <<>> /\ Head(stripped) = "/" THEN Tail(stripped)
               ELSE stripped
      Plain(s) == \A i \in 1..Len(Split(s, "/")) :
                    Split(s, "/")[i] \notin {<<>>, <<".">>, <<".",".">>}
  IN (call.op # "none" /\ third = Undefined
        /\ (second.t = "number" \/ (second.t = "string" /\ second.s # <<>>))
        /\ Plain(inner) /\ Plain(String(second))) =>
       call.request.path =
         stripped \o <<"/">> \o String(second) \o (IF hasSlash THEN <<"/">> ELSE <<>>)

\* C12's case: find('u/', 0) built 'u/0/'
C12_Witness ==
  /\ call.op = "find"
  /\ call.args.resource = Str(<<"u","/">>)
  /\ call.args.criteria = Num(0)
  /\ call.request.path = <<"u","/","0","/">>

\* C13 as stated: when the resolved filter is a mapping, the path is the
\* (id-extended) resource, '?', and the 'key=value' pairs of the mapping
\* joined by '&' in the mapping's own order; a bare '?' for an empty mapping.
C13_QueryInIterationOrder ==
  LET second == IF call.op \in TakesId THEN call.args.id ELSE call.args.criteria
      third == IF call.op \in TakesId THEN call.args.criteria ELSE Undefined
      isId == second.t \in {"string", "number"}
      filter == IF isId THEN third ELSE second
  IN (call.op # "none" /\ filter.t = "object") =>
       LET base == IF isId
                     THEN Invoke(rest, call.op,
                                 [call.args EXCEPT !.criteria = Undefined]).path
                     ELSE call.args.resource.s
           pair(p) == encodeKey(p.k) \o <<"=">> \o encode(String(p.v))
           pairs == [i \in 1..Len(filter.props) |-> pair(filter.props[i])]
       IN call.request.path = base \o <<"?">> \o Join(pairs, <<"&">>)

\* C13 amended: when the resolved filter is a mapping, the path is the
\* (id-extended) resource, '?', and the 'key=value' pairs of the mapping
\* joined by '&' in the sorted order of the keys; a bare '?' for an empty
\* mapping.
C13_QueryInSortedOrder ==
  LET second == IF call.op \in TakesId THEN call.args.id ELSE call.args.criteria
      third == IF call.op \in TakesId THEN call.args.criteria ELSE Undefined
      isId == second.t \in {"string", "number"}
      filter == IF isId THEN third ELSE second
  IN (call.op # "none" /\ filter.t = "object") =>
       LET base == IF isId
                     THEN Invoke(rest, call.op,
                                 [call.args EXCEPT !.criteria = Undefined]).path
                     ELSE call.args.resource.s
           pair(p) == encodeKey(p.k) \o <<"=">> \o encode(String(p.v))
           all == {filter.props[i] : i \in 1..Len(filter.props)}
           nth(i) == CHOOSE p \in all :
                       Cardinality({q \in all : Before(q.k, p.k)}) = i - 1
           pairs == [i \in 1..Len(filter.props) |-> pair(nth(i))]
       IN call.request.path = base \o <<"?">> \o Join(pairs, <<"&">>)

\* C13's case: findOne('u', 5, {b: 'x y', a: 10}) built 'u/5?a=10&b=x%20y'
C13_Witness ==
  /\ call.op = "findOne"
  /\ call.args.resource = Str(<<"u">>)
  /\ call.args.id = Num(5)
  /\ call.args.criteria = PathFilter
  /\ call.request.path =
       <<"u","/","5","?","a","=","1","0","&","b","=","x","%","2","0","y">>

\* C14: findOne, updateOne, patchOne and destroyOne called with an id that is
\* neither a string nor a number build the same path whatever their criteria
\* argument is.
C14_CriteriaIgnoredWithoutId ==
  (call.op \in TakesId /\ call.args.id.t \notin {"string", "number"}) =>
    \A c \in PathCriterias :
      Invoke(rest, call.op, [call.args EXCEPT !.criteria = c]).path = call.request.path

\* C14's case: updateOne('u', undefined, {b: 'x y', a: 10}) built 'u'
C14_Witness ==
  /\ call.op = "updateOne"
  /\ call.args.resource = Str(<<"u">>)
  /\ call.args.id = Undefined
  /\ call.args.criteria = PathFilter
  /\ call.request.path = <<"u">>

\* C15: with neither an id nor a criteria, or with a null criteria, the path
\* is the resource, unchanged.
C15_ResourceUnchanged ==
  LET second == IF call.op \in TakesId THEN call.args.id ELSE call.args.criteria
      third == IF call.op \in TakesId THEN call.args.criteria ELSE Undefined
  IN (call.op # "none" /\ second \in {Undefined, Null} /\ third \in {Undefined, Null}) =>
       call.request.path = call.args.resource.s

\* C15's case: destroy('u/', null) built 'u/'
C15_Witness ==
  /\ call.op = "destroy"
  /\ call.args.resource = Str(<<"u","/">>)
  /\ call.args.criteria = Null
  /\ call.request.path = <<"u","/">>

(***************************************************************************)
(* The claim about failures, checked under SpecFailure.                    *)
(***************************************************************************)
\* C19 as stated: no call of a CRUD method throws; every failure, that of a
\* call on a client of the base class too, is a rejection of the promise.
C19_NeverThrown ==
  call.op # "none" =>
    /\ call.state # "thrown"
    /\ rest.class = "Rest" => call.state = "rejected"

\* C19 amended: a failure of the transport and a response with a status
\* outside [200, 400) reject the promise a DefaultRest returned, and no call
\* on a DefaultRest throws; a call on a client of the base class throws
\* Error('must implement') and fetches nothing.
C19_FailuresRejectBaseThrows ==
  call.op # "none" =>
    /\ rest.class = "DefaultRest" =>
         /\ call.state \in {"pending", "parsing", "resolved", "rejected"}
         /\ call.state = "rejected" <=>
              \/ call.response = Undefined /\ call.value \in TransportFailures
              \/ /\ call.response # Undefined
                 /\ call.value = call.response
                 /\ (call.response.status < 200 \/ call.response.status >= 400)
         /\ fetched = issued
    /\ rest.class = "Rest" =>
         /\ call.state = "thrown"
         /\ call.value = MustImplement
         /\ fetched = 0

\* C19's case: find called on a client of the base class has thrown
C19_Witness ==
  /\ rest.class = "Rest"
  /\ call.op = "find"
  /\ call.state = "thrown"
  /\ call.value = MustImplement

(***************************************************************************)
(* The claim about requests in flight, checked under SpecFlight.           *)
(***************************************************************************)
\* C20: whatever calls are in flight and in whatever order they are
\* answered, the options each call handed to the transport are, and stay,
\* the merge of the defaults and the options as they were at that call; no
\* call writes to an object that existed before it (the defaults, the
\* caller's options, the caller's body); and each call settles by its own
\* response.
C20_CallsDoNotInterfere ==
  /\ \A i \in 1..Len(inflight) :
       LET c == inflight[i]
           method == IF c.op = "find" THEN GET ELSE POST
           merged == request([defaults |-> c.given.defaults], method, c.request.path,
                             c.given.body, c.given.options)
       IN /\ Load(heap, c.request.options) = merged.options
          /\ Load(heap, c.args.options) = c.given.options
          /\ Load(heap, c.args.body) = c.given.body
          /\ c.state \in {"parsing", "resolved"} =>
               c.response # Undefined /\ statusOk(c.response)
          /\ c.state = "resolved" => c.value = c.response.json
          /\ c.state = "rejected" =>
               \/ c.response = Undefined /\ c.value = NetworkError
               \/ c.response # Undefined /\ ~statusOk(c.response)
                    /\ c.value = c.response
          /\ c.state = "pending" => c.response = Undefined
  /\ \A a \in 1..Len(Objects.heap) : heap[a] = Objects.heap[a]
  /\ fetched = Len(inflight)

\* C20's case: two calls with the same options object, made under different
\* defaults; the second is answered and resolved while the first is pending
C20_Witness ==
  /\ Len(inflight) = 2
  /\ inflight[1].args.options \in OptionsRefs
  /\ inflight[2].args.options = inflight[1].args.options
  /\ inflight[1].given.defaults # inflight[2].given.defaults
  /\ inflight[1].state = "pending"
  /\ inflight[2].state = "resolved"

(***************************************************************************)
(* The claims about lookups, checked under SpecLookup.                     *)
(***************************************************************************)
\* C21: every use of a resolver made by Endpoint.of(key) returns what
\* getEndpoint(key) returns in the registry as it is at that use, and the
\* resolver keeps nothing but its key between uses.
C21_ResolvedAtUse ==
  /\ resolver \in {Endpoint_of(key) : key \in ResolverKeys}
  /\ last.op = "get" =>
       /\ last.key = resolver.key
       /\ last.result = getEndpoint(config, last.key)

\* C21's case: the resolver for 'a', made before anything was registered,
\* returns the client of the second registration of 'a'
C21_Witness ==
  /\ last.op = "get"
  /\ last.key = "a"
  /\ last.result.t = "Rest"
  /\ last.result.id = 2
  /\ last.result.endpoint = "a"

\* C22: when the transport's fetch fails, the call is rejected with that very failure value, neither the status check nor the body parsing has run, and no further transport call is made.
C22_TransportFailurePassedOn ==
  /\ [](call.op # "none" /\ call.failure # Undefined =>
          /\ call.state = "rejected"
          /\ call.value = call.failure
          /\ call.response = Undefined
          /\ ~call.parsed)
  /\ [][call.op # "none" /\ call'.op # "none"
          /\ call.failure = Undefined /\ call'.failure # Undefined =>
            /\ call.state = "pending"
            /\ fetched' = fetched
            /\ issued' = issued
            /\ call'.request = call.request]_vars

C22_Witness ==
  /\ call.op = "findOne"
  /\ call.state = "rejected"
  /\ call.failure = AbortError
  /\ call.value = AbortError
  /\ fetched = 1

\* C23: getEndpoint without a name returns the current default endpoint when one is set and null otherwise, whichever names are registered; what it returns changes only when a default is set.
C23_NoNameGivesDefault ==
  /\ [](/\ getEndpoint(config, "") =
             (IF config.defaultEndpoint \in {Undefined, Null} THEN Null
              ELSE config.defaultEndpoint)
         /\ last.op = "getEndpoint" /\ last.name = "" =>
              last.result = getEndpoint(config, ""))
  /\ [][getEndpoint(config', "") # getEndpoint(config, "") =>
          last'.op = "setDefaultEndpoint"]_vars

\* C23's case: endpoints are registered, also under the empty name, none was
\* made the default, and getEndpoint() returned null
C23_Witness ==
  /\ last.op = "getEndpoint"
  /\ last.name = ""
  /\ last.result = Null
  /\ {"", "a"} \subseteq DOMAIN config.endpoints

\* C24: post and create send to exactly the resource string they were given, and create issues the transport call post issues for the same arguments.
C24_PostAndCreateToResource ==
  call.op \in {"post", "create"} =>
    /\ call.request.path = call.args.resource.s
    /\ call.request = Invoke(rest, "post", call.args)
    /\ call.request = Invoke(rest, "create", call.args)

\* C24's case: create on a resource with a trailing slash, with a body
C24_Witness ==
  /\ call.op = "create"
  /\ call.args.resource = Str(<<"u","/">>)
  /\ call.args.body \in Bodies \ {Undefined, Null}
  /\ call.args.options = Undefined
  /\ call.request.path = <<"u","/">>

\* C25: after configure(cfg) without a top-level defaultEndpoint, the default endpoint is the client getEndpoint returns for the name of the last entry with default: true, and it is what it was before the call when no entry has default: true.
C25_LastDefaultEntryWins ==
  /\ [](last.op = "configure" /\ last.cfg.defaultEndpoint = "" =>
          LET entries == last.cfg.endpoints
              flagged == {i \in 1..Len(entries) : entries[i].default}
          IN flagged # {} =>
               LET i == CHOOSE i \in flagged : \A j \in flagged : j <= i
               IN config.defaultEndpoint = getEndpoint(config, entries[i].name))
  /\ [][(/\ last'.op = "configure"
          /\ last'.cfg.defaultEndpoint = ""
          /\ \A i \in 1..Len(last'.cfg.endpoints) : ~last'.cfg.endpoints[i].default) =>
            config'.defaultEndpoint = config.defaultEndpoint]_vars

\* C26: when the second argument is a string or a number (the empty string included) and the resource contains no double slash, the path built contains no double slash.
C26_NoDoubleSlash ==
  LET second == IF call.op \in TakesId THEN call.args.id ELSE call.args.criteria
      DoubleSlash(s) == \E i \in 1..(Len(s) - 1) : s[i] = "/" /\ s[i + 1] = "/"
  IN (/\ call.op \in TakesCriteria
      /\ second.t \in {"string", "number"}
      /\ ~DoubleSlash(call.args.resource.s)) =>
       ~DoubleSlash(call.request.path)

\* C27: on a client with the built-in defaults, called without per-call options, a structured body given to create, post, update, updateOne, patch or patchOne is handed to the transport as its JSON text.
C27_BuiltinDefaultsSendJson ==
  (/\ call.op \in TakesBody
   /\ rest.defaults = BuiltinDefaults
   /\ call.args.options = Undefined
   /\ call.args.body.t = "object") =>
    Member(call.request.options, BodyKey) = Str(JSONstringify(call.args.body))

\* C28: a registerEndpoint(name, ...) step changes the registry entry of name only: every other name keeps its client, no other name appears, and the default endpoint and the default base url stay what they were; a getEndpoint or endpointExists step changes nothing.
C28_RegisterEndpointFrame ==
  [][/\ last'.op = "registerEndpoint" =>
          /\ DOMAIN config'.endpoints = DOMAIN config.endpoints \cup {last'.name}
          /\ \A n \in DOMAIN config.endpoints \ {last'.name} :
                config'.endpoints[n] = config.endpoints[n]
          /\ config'.defaultEndpoint = config.defaultEndpoint
          /\ config'.defaultBaseUrl = config.defaultBaseUrl
     /\ last'.op \in {"getEndpoint", "endpointExists"} =>
          /\ config' = config
          /\ resolver' = resolver]_vars

\* C28's case: 'a' was registered while 'b' was registered and the default,
\* and a default base url was set
C28_Witness ==
  /\ last.op = "registerEndpoint"
  /\ last.name = "a"
  /\ "b" \in DOMAIN config.endpoints
  /\ config.defaultEndpoint = config.endpoints["b"]
  /\ config.defaultBaseUrl = UrlA

\* C29: the default base url is applied when an endpoint is registered and at no other time: setting it leaves every registered client as it is, a registration without a source takes the value current at that call, and a configure call sets its defaultBaseUrl before it registers, so each of its entries without an endpoint value gets it while the clients of names it does not register are left alone.
C29_BaseUrlAtRegistration ==
  [][/\ last'.op = "setDefaultBaseUrl" =>
          /\ config'.endpoints = config.endpoints
          /\ config'.defaultBaseUrl = last'.baseUrl
     /\ (last'.op = "registerEndpoint" /\ last'.configureMethod = Undefined) =>
          config'.endpoints[last'.name].client.baseUrl =
            (IF config.defaultBaseUrl \in {Undefined, Str(<<>>)}
               THEN HttpClient.baseUrl ELSE config.defaultBaseUrl)
     /\ last'.op = "configure" =>
          LET entries == last'.cfg.endpoints
              base == IF last'.cfg.defaultBaseUrl # Undefined
                        THEN last'.cfg.defaultBaseUrl
                      ELSE IF config.defaultBaseUrl \in {Undefined, Str(<<>>)}
                        THEN HttpClient.baseUrl
                      ELSE config.defaultBaseUrl
          IN /\ \A n \in DOMAIN config.endpoints :
                  (\A i \in 1..Len(entries) : entries[i].name # n) =>
                    config'.endpoints[n] = config.endpoints[n]
             /\ \A i \in 1..Len(entries) :
                  (/\ entries[i].endpoint = Undefined
                   /\ \A j \in (i + 1)..Len(entries) : entries[j].name # entries[i].name) =>
                    config'.endpoints[entries[i].name].client.baseUrl = base]_vars

\* C29's case: 'a' was registered before any default base url was set; a
\* configure call then set one and registered 'b' without an endpoint value
C29_Witness ==
  /\ last.op = "configure"
  /\ last.cfg.defaultBaseUrl = UrlA
  /\ Len(last.cfg.endpoints) = 1
  /\ last.cfg.endpoints[1].name = "b"
  /\ last.cfg.endpoints[1].endpoint = Undefined
  /\ "a" \in DOMAIN config.endpoints
  /\ config.endpoints["a"].client.baseUrl = HttpClient.baseUrl
  /\ config.endpoints["b"].client.baseUrl = UrlA

\* C30: for every name, endpointExists is true exactly when the name has been registered, it agrees with getEndpoint returning a client rather than null, and once true it stays true.
C30_ExistsIffRegistered ==
  /\ [](\A n \in Names :
          /\ endpointExists(config, n) = (n \in DOMAIN config.endpoints)
          /\ endpointExists(config, n) = (getEndpoint(config, n) # Null))
  /\ [][\A n \in Names :
          endpointExists(config, n) => endpointExists(config', n)]_vars

====
